---- MODULE Spec2Model ----
(***************************************************************************)
(* Model of kh-summary/summary.py: a one-shot pipeline that sanitises the  *)
(* header line of a tab-separated bank export, loads it, checks the        *)
(* currency, drops the account-merge rows, sorts by posting date, spreads  *)
(* same-day rows over synthetic hours, accumulates the running balance,    *)
(* renders a chart, writes it to an HTML file and opens a browser.         *)
(*                                                                         *)
(* Text is modelled as sequences of characters.  A "character" is a        *)
(* string: one of the whitespace characters below, or a maximal run of     *)
(* non-whitespace characters (Python's str.isspace() is False on each of   *)
(* its characters, so the run can be treated as one unit).  The text of a  *)
(* file is the sequence of the pieces it was written in (writelines writes *)
(* one piece per list element); every piece holds at most one "\n", as its *)
(* last character.                                                         *)
(***************************************************************************)
EXTENDS Integers, Sequences, FiniteSets, TLC

(***************************************************************************)
(* Characters                                                              *)
(***************************************************************************)
TAB == "\t"
NL == "\n"
SP == " "
\* stands for U+00A0, the no-break space found in the export's header
NBSP == "&nbsp;"

\* str.isspace() on one character
isspace(c) == c \in {SP, NBSP, TAB, NL}

(***************************************************************************)
(* Column names, literals                                                  *)
(***************************************************************************)
COL_CURRENCY == "összegdevizaneme"
COL_DATE == "könyvelésdátuma"
COL_AMOUNT == "összeg"
COL_TYPE == "típus"
COL_PARTNER == "partnerelnevezése"
COL_MEMO == "közlemény"
HUF == "HUF"
MERGE_TYPE == "Számlamegszüntetés átvezetéssel"
NO_DESCRIPTION == "No Description"
\* pandas' missing value
NaN == "<NaN>"
\* unit='H' of the per-day offsets: hours in a day of the datetime column
HoursPerDay == 24

(***************************************************************************)
(* Generic sequence helpers                                                *)
(***************************************************************************)
RECURSIVE JoinChars(_)
\* ''.join(chars)
JoinChars(cs) == IF cs = <<>> THEN "" ELSE Head(cs) \o JoinChars(Tail(cs))

RECURSIVE SplitOn(_, _, _)
\* the pieces of cs between occurrences of sep; cur is the piece being read
SplitOn(cs, sep, cur) ==
  IF cs = <<>> THEN <<cur>>
  ELSE IF Head(cs) = sep THEN <<cur>> \o SplitOn(Tail(cs), sep, <<>>)
  ELSE SplitOn(Tail(cs), sep, Append(cur, Head(cs)))

RECURSIVE SumSeq(_)
SumSeq(s) == IF s = <<>> THEN 0 ELSE Head(s) + SumSeq(Tail(s))

(***************************************************************************)
(* fix_header_line                                                         *)
(***************************************************************************)
\* header_line with every whitespace character other than tab removed
FixedHeader(header_line) ==
  SelectSeq(header_line, LAMBDA c : c = TAB \/ ~isspace(c))

RECURSIVE readlines(_, _)
\* f.readlines(): the text cut after every "\n", each line keeping its
\* "\n"; a piece without one runs on into the next piece, and a last line
\* without one is returned as it is.  cur is the line being read.
readlines(text, cur) ==
  IF text = <<>> THEN (IF cur = <<>> THEN <<>> ELSE <<cur>>)
  ELSE IF Head(text) # <<>> /\ Head(text)[Len(Head(text))] = NL
       THEN <<cur \o Head(text)>> \o readlines(Tail(text), <<>>)
       ELSE readlines(Tail(text), cur \o Head(text))

\* lines[0] is replaced by the fixed header and f.writelines(lines) writes
\* the lines one after the other, nothing added, to the "_fixed.csv" copy;
\* the value is that copy's text.  lines[0] of an empty file raises
\* IndexError: the caller tests for an empty file first.
fix_header_line(text) ==
  LET lines == readlines(text, <<>>)
  IN  [lines EXCEPT ![1] = FixedHeader(lines[1])]

(***************************************************************************)
(* pandas.read_csv(sep='\t', skipinitialspace=True) and dropna(how='all')  *)
(***************************************************************************)
RECURSIVE SkipInitialSpace(_)
SkipInitialSpace(cs) ==
  IF cs # <<>> /\ Head(cs) = SP THEN SkipInitialSpace(Tail(cs)) ELSE cs

\* the fields of one physical line; an empty field is read as NaN
Fields(line) ==
  LET pieces == SplitOn(line, TAB, <<>>)
  IN  [i \in 1..Len(pieces) |->
         LET f == JoinChars(SkipInitialSpace(pieces[i]))
         IN  IF f = "" THEN NaN ELSE f]

\* the physical lines of the file, blank ones skipped (skip_blank_lines)
PhysicalLines(text) ==
  LET ls == readlines(text, <<>>)
  IN  SelectSeq([i \in 1..Len(ls) |-> SelectSeq(ls[i], LAMBDA c : c # NL)],
                LAMBDA l : l # <<>>)

\* a short row is padded with NaN up to the header's width
PadRow(fs, width) ==
  [i \in 1..width |-> IF i <= Len(fs) THEN fs[i] ELSE NaN]

\* err: EmptyDataError (no line at all) or ParserError (a row wider than the
\* header).  columns: the fields of the first line.  rows: one per later
\* line, idx being the row's index label (0, 1, 2, ...).
read_csv(text) ==
  LET ls == PhysicalLines(text)
      columns == IF ls = <<>> THEN <<>> ELSE Fields(ls[1])
      width == Len(columns)
  IN  IF ls = <<>> \/ \E i \in 2..Len(ls) : Len(Fields(ls[i])) > width
      THEN [err |-> TRUE, columns |-> <<>>, rows |-> <<>>]
      ELSE [err |-> FALSE, columns |-> columns,
            rows |-> [i \in 1..(Len(ls) - 1) |->
                        [idx |-> i - 1, cells |-> PadRow(Fields(ls[i + 1]), width)]]]

\* df.dropna(how='all'): rows whose every cell is NaN are dropped
dropna_all(rows) ==
  SelectSeq(rows, LAMBDA r : \E i \in 1..Len(r.cells) : r.cells[i] # NaN)

\* df[name]: KeyError unless name is one of the columns
HasCol(columns, name) == \E i \in 1..Len(columns) : columns[i] = name
ColIndex(columns, name) ==
  CHOOSE i \in 1..Len(columns) :
    columns[i] = name /\ \A j \in 1..(i - 1) : columns[j] # name
Cell(columns, r, name) == r.cells[ColIndex(columns, name)]

(***************************************************************************)
(* Conversions of read_and_process_csv                                     *)
(***************************************************************************)
\* datetime.strptime(s, '%Y.%m.%d') as the proleptic ordinal of the day
\* (date.toordinal()), for the date strings of the model's inputs; any
\* other string does not match the format and raises ValueError
DateOrdinal ==
  ("2014.08.01" :> 735446) @@ ("2014.08.02" :> 735447)
ValidDate(s) == s \in DOMAIN DateOrdinal
\* pd.to_datetime of one cell, in hours since the ordinal epoch
to_datetime(s) == DateOrdinal[s] * HoursPerDay

\* the integer read_csv parses from an amount field
AmountValue ==
  ("1000" :> 1000) @@ ("-300" :> -300) @@ ("50" :> 50) @@ ("500" :> 500) @@
  ("20" :> 20)

\* ts.dt.date: the calendar day of a timestamp
DayOf(ts) == ts \div HoursPerDay

(***************************************************************************)
(* sort_values('date')                                                     *)
(***************************************************************************)
RECURSIVE InsertByDate(_, _)
\* r goes after every row whose date is not later than r's
InsertByDate(sorted, r) ==
  IF sorted = <<>> THEN <<r>>
  ELSE IF Head(sorted).date <= r.date
       THEN <<Head(sorted)>> \o InsertByDate(Tail(sorted), r)
       ELSE <<r>> \o sorted

RECURSIVE StableSort(_)
\* rows by date, rows of equal date in their order in rows
StableSort(rows) ==
  IF rows = <<>> THEN <<>>
  ELSE InsertByDate(StableSort(SubSeq(rows, 1, Len(rows) - 1)), rows[Len(rows)])

SwapAt(rows, k) ==
  [i \in 1..Len(rows) |->
     IF i = k THEN rows[k + 1] ELSE IF i = k + 1 THEN rows[k] ELSE rows[i]]

\* numpy's quicksort finishes partitions of up to this many elements by
\* insertion sort, which keeps equal keys in place
SMALL_QUICKSORT == 16

\* The orders sort_values('date') may return.  kind defaults to 'quicksort',
\* which pandas documents as not stable: the order of rows of equal date is
\* unspecified once the frame is too long for the insertion-sort pass.  The
\* outcomes drawn here are the stable order and that order with one
\* adjacent pair of equal-date rows transposed.
SortOutcomes(rows) ==
  LET st == StableSort(rows)
  IN  {st} \cup
      IF Len(rows) <= SMALL_QUICKSORT + 1 THEN {}
      ELSE {SwapAt(st, k) : k \in {j \in 1..(Len(st) - 1) : st[j].date = st[j + 1].date}}

(***************************************************************************)
(* read_and_process_csv, after the file has been loaded                    *)
(***************************************************************************)
\* df[df[currency] != 'HUF']: NaN differs from 'HUF' too
non_huf(columns, rows) ==
  SelectSeq(rows, LAMBDA r : Cell(columns, r, COL_CURRENCY) # HUF)

\* the rows the loop over non_huf prints: date, amount, currency
ReportRows(columns, rows) ==
  [i \in 1..Len(rows) |->
     [date |-> Cell(columns, rows[i], COL_DATE),
      amount |-> Cell(columns, rows[i], COL_AMOUNT),
      currency |-> Cell(columns, rows[i], COL_CURRENCY)]]

\* df['date'] = to_datetime(...), then the row filter on the type column
WithDates(columns, rows) ==
  [i \in 1..Len(rows) |->
     [idx |-> rows[i].idx, cells |-> rows[i].cells,
      date |-> to_datetime(Cell(columns, rows[i], COL_DATE))]]

NotMerge(columns, rows) ==
  SelectSeq(rows, LAMBDA r : Cell(columns, r, COL_TYPE) # MERGE_TYPE)

\* rank of row i among the rows of its calendar day, in frame order
RankInDay(rows, i) ==
  Cardinality({j \in 1..(i - 1) : DayOf(rows[j].date) = DayOf(rows[i].date)})

\* groupby(date.dt.date).transform(x + to_timedelta(range(len(x)), 'H'))
AddHours(rows) ==
  [i \in 1..Len(rows) |-> [rows[i] EXCEPT !.date = @ + RankInDay(rows, i)]]

\* the amount column copied without accumulating
CumSumNotAccumulated(columns, rows, i) ==
  AmountValue[Cell(columns, rows[i], COL_AMOUNT)]

\* df[amount].cumsum()
CumSum(columns, rows, i) ==
  SumSeq([j \in 1..i |-> AmountValue[Cell(columns, rows[j], COL_AMOUNT)]])

\* the fallback with memo and partner the wrong way round
DescriptionMemoFirst(partner, memo) ==
  IF memo # NaN THEN memo
  ELSE IF partner # NaN THEN partner ELSE NO_DESCRIPTION

\* partner.fillna(memo.fillna('No Description'))
Description(partner, memo) ==
  IF partner # NaN THEN partner
  ELSE IF memo # NaN THEN memo ELSE NO_DESCRIPTION

\* the frame read_and_process_csv returns, for the sort order chosen
Processed(columns, sorted) ==
  LET timed == AddHours(sorted)
  IN  [i \in 1..Len(timed) |->
         [idx |-> timed[i].idx,
          posting |-> Cell(columns, timed[i], COL_DATE),
          date |-> timed[i].date,
          amount |-> AmountValue[Cell(columns, timed[i], COL_AMOUNT)],
          type |-> Cell(columns, timed[i], COL_TYPE),
          partner |-> Cell(columns, timed[i], COL_PARTNER),
          memo |-> Cell(columns, timed[i], COL_MEMO),
          balance |-> CumSum(columns, timed, i),
          description |-> Description(Cell(columns, timed[i], COL_PARTNER),
                                      Cell(columns, timed[i], COL_MEMO))]]

(***************************************************************************)
(* create_plotly_chart: the data the figure is built from                  *)
(***************************************************************************)
SeqMax(s) == CHOOSE m \in {s[i] : i \in 1..Len(s)} : \A i \in 1..Len(s) : s[i] <= m
SeqMin(s) == CHOOSE m \in {s[i] : i \in 1..Len(s)} : \A i \in 1..Len(s) : m <= s[i]

\* needs a frame with at least one row
create_plotly_chart(df) ==
  LET y == [i \in 1..Len(df) |-> df[i].balance]
  IN  [x |-> [i \in 1..Len(df) |-> df[i].date],
       y |-> y,
       hover |-> [i \in 1..Len(df) |-> df[i].description],
       positive_fill |-> \E i \in 1..Len(y) : y[i] >= 0,
       negative_fill |-> \E i \in 1..Len(y) : y[i] < 0,
       current_balance |-> y[Len(y)],
       peak |-> SeqMax(y),
       lowest_marked |-> SeqMin(y) < 0]

NoChart ==
  [x |-> <<>>, y |-> <<>>, hover |-> <<>>, positive_fill |-> FALSE,
   negative_fill |-> FALSE, current_balance |-> 0, peak |-> 0,
   lowest_marked |-> FALSE]

(***************************************************************************)
(* Inputs                                                                  *)
(***************************************************************************)
\* longest file of the varied rows, in data rows
MaxRows == 3
\* largest number of data rows of one posting date in the long files
MaxSameDay == 26

\* the raw header of each column, as exported: words separated by
\* whitespace that is not a tab
RawHeader ==
  [date |-> <<"könyvelés", NBSP, "dátuma">>,
   type |-> <<"típus">>,
   partner |-> <<"partner", SP, "elnevezése">>,
   amount |-> <<"összeg">>,
   currency |-> <<"összeg", NBSP, "devizaneme">>,
   memo |-> <<"közlemény">>,
   extra |-> <<"könyvelési", SP, "számla">>]

\* column orders of the export: one with a trailing column the program does
\* not use, and two that end with a column it uses
MainLayout == <<"date", "type", "partner", "amount", "currency", "memo", "extra">>
OtherLayouts ==
  { <<"date", "type", "partner", "amount", "currency", "memo">>,
    <<"date", "type", "partner", "amount", "memo", "currency">> }

Purchase == "Vásárlás"
Row(d, t, p, a, c, m) ==
  [date |-> d, type |-> t, partner |-> p, amount |-> a, currency |-> c,
   memo |-> m, extra |-> IF d = "" THEN "" ELSE "HU01"]

\* the data rows files are made of; "" is an empty field
BlankRow == Row("", "", "", "", "", "")
BadDateRow == Row("2014-08-01", Purchase, "", "50", HUF, "")
SameDayRow == Row("2014.08.01", Purchase, "", "50", HUF, "")
NextDayRow == Row("2014.08.02", Purchase, "", "50", HUF, "")
RowKinds ==
  { Row("2014.08.01", Purchase, "Shop", "1000", HUF, "rent"),
    Row("2014.08.01", Purchase, "", "-300", HUF, "rent"),
    NextDayRow,
    Row("2014.08.01", MERGE_TYPE, "", "500", HUF, ""),
    Row("2014.08.02", Purchase, "Shop", "20", "EUR", ""),
    Row("2014.08.01", MERGE_TYPE, "", "500", "", ""),
    BadDateRow,
    BlankRow }

RECURSIVE TabJoin(_)
\* the pieces separated by tabs
TabJoin(pieces) ==
  IF Len(pieces) = 1 THEN pieces[1]
  ELSE pieces[1] \o <<TAB>> \o TabJoin(Tail(pieces))

HeaderLine(layout) ==
  TabJoin([i \in 1..Len(layout) |-> RawHeader[layout[i]]])
RowLine(layout, r) ==
  TabJoin([i \in 1..Len(layout) |->
             IF r[layout[i]] = "" THEN <<>> ELSE <<r[layout[i]]>>])

\* the export: header line, data lines, every line ended by "\n" except,
\* without final_nl, the last one
FileContent(layout, rows, final_nl) ==
  LET ls == <<HeaderLine(layout)>> \o [i \in 1..Len(rows) |-> RowLine(layout, rows[i])]
  IN  [i \in 1..Len(ls) |->
         IF i < Len(ls) \/ final_nl THEN Append(ls[i], NL) ELSE ls[i]]

RowSeqs == UNION {[1..n -> RowKinds] : n \in 0..MaxRows}
\* the other layouts are tried on files of at most one data row
ShortRowSeqs == UNION {[1..n -> RowKinds] : n \in 0..1}

\* long files: n rows of one day followed by a row of the next day
LongRows(n) == [i \in 1..(n + 1) |-> IF i <= n THEN SameDayRow ELSE NextDayRow]

\* each input keeps its rows beside the content, for stating properties
Inputs ==
  { [layout |-> MainLayout, rows |-> rs, content |-> FileContent(MainLayout, rs, nl)] :
      rs \in RowSeqs, nl \in BOOLEAN }
  \cup
  { [layout |-> l, rows |-> rs, content |-> FileContent(l, rs, nl)] :
      l \in OtherLayouts, rs \in ShortRowSeqs, nl \in BOOLEAN }
  \cup
  { [layout |-> MainLayout, rows |-> LongRows(n),
     content |-> FileContent(MainLayout, LongRows(n), TRUE)] :
      n \in (MaxSameDay - 1)..MaxSameDay }
  \cup
  \* a file of zero bytes
  { [layout |-> <<>>, rows |-> <<>>, content |-> <<>>] }

(***************************************************************************)
(* read_and_process_csv up to the sort: where it stops and why             *)
(***************************************************************************)
\* cause: "IndexError" (lines[0] of an empty file), "ParserError",
\* "KeyError" (a column looked up by name is missing), "currency" (the
\* non-HUF branch), "ValueError" (a date that does not match the format),
\* or "ok" with the filtered rows ready for the sort.  Every cause but "ok"
\* makes the function return None.  The look-ups follow the statement order
\* of the source.
LoadStages(content) ==
  LET stop(c, w, rep) ==
        [cause |-> c, wrote_fixed |-> w, reported |-> rep,
         columns |-> <<>>, rows |-> <<>>]
  IN
  IF readlines(content, <<>>) = <<>> THEN stop("IndexError", FALSE, <<>>)
  ELSE
  LET t == read_csv(fix_header_line(content))
      columns == t.columns
      rows == dropna_all(t.rows)
  IN
  IF t.err THEN stop("ParserError", TRUE, <<>>)
  ELSE IF ~HasCol(columns, COL_CURRENCY) THEN stop("KeyError", TRUE, <<>>)
  ELSE IF non_huf(columns, rows) # <<>> THEN
    IF HasCol(columns, COL_DATE) /\ HasCol(columns, COL_AMOUNT)
    THEN stop("currency", TRUE, ReportRows(columns, non_huf(columns, rows)))
    ELSE stop("KeyError", TRUE, <<>>)
  ELSE IF ~HasCol(columns, COL_DATE) THEN stop("KeyError", TRUE, <<>>)
  ELSE IF \E i \in 1..Len(rows) : ~ValidDate(Cell(columns, rows[i], COL_DATE))
    THEN stop("ValueError", TRUE, <<>>)
  ELSE IF ~HasCol(columns, COL_TYPE) THEN stop("KeyError", TRUE, <<>>)
  ELSE IF ~HasCol(columns, COL_AMOUNT) \/ ~HasCol(columns, COL_PARTNER)
          \/ ~HasCol(columns, COL_MEMO)
    THEN stop("KeyError", TRUE, <<>>)
  ELSE [cause |-> "ok", wrote_fixed |-> TRUE, reported |-> <<>>,
        columns |-> columns,
        rows |-> NotMerge(columns, WithDates(columns, rows))]

(***************************************************************************)
(* State                                                                   *)
(***************************************************************************)
VARIABLES
  argc,          \* len(sys.argv)
  readable,      \* whether open(csv_file_path) succeeds
  input,         \* the export file: its content, and the rows it was built of
  pc,            \* position in main: "start", "summary", "chart", "browser", "exited"
  result,        \* of read_and_process_csv: "pending", "data" or "None"
  cause,         \* why the load stopped ("" before the load)
  fixed_file,    \* content of the "_fixed.csv" copy (<<>> until written)
  reported,      \* the non-HUF rows printed by the currency check
  df,            \* the frame returned (<<>> unless result = "data")
  exit_code,     \* the process's exit status, -1 while it runs
  chart,         \* the figure written to bank_balance_chart.html
  browser,       \* "", "opened" or "failed"
  files_read,    \* paths opened for reading in this run
  files_written  \* paths written in this run, in order

vars ==
  <<argc, readable, input, pc, fixed_file, result, cause, reported, df,
    exit_code, chart, browser, files_read, files_written>>

CSV == "csv_file_path"
FIXED == "csv_file_path_fixed.csv"
HTML == "bank_balance_chart.html"

ArgCounts == {1, 2, 3}
DefaultInput == [layout |-> <<>>, rows |-> <<>>, content |-> <<>>]

\* the file is left at one value in the runs that never read it
Init ==
  /\ argc \in ArgCounts
  /\ readable \in BOOLEAN
  /\ input \in Inputs
  /\ (argc # 2 \/ ~readable) => input = DefaultInput
  /\ pc = "start"
  /\ fixed_file = <<>>
  /\ result = "pending"
  /\ cause = ""
  /\ reported = <<>>
  /\ df = <<>>
  /\ exit_code = -1
  /\ chart = NoChart
  /\ browser = ""
  /\ files_read = {}
  /\ files_written = <<>>

(***************************************************************************)
(* main                                                                    *)
(***************************************************************************)
\* len(sys.argv) != 2: usage message, sys.exit(1)
Usage ==
  /\ pc = "start"
  /\ argc # 2
  /\ pc' = "exited"
  /\ exit_code' = 1
  /\ UNCHANGED <<argc, readable, input, fixed_file, result, cause, reported,
                 df, chart, browser, files_read, files_written>>

\* read_and_process_csv raises in open(): caught, None, sys.exit(1)
LoadUnreadable ==
  /\ pc = "start"
  /\ argc = 2
  /\ ~readable
  /\ result' = "None"
  /\ cause' = "OSError"
  /\ pc' = "exited"
  /\ exit_code' = 1
  /\ files_read' = {}
  /\ UNCHANGED <<argc, readable, input, fixed_file, reported, df, chart,
                 browser, files_written>>

\* the failed load followed by a plain return from main instead of
\* sys.exit(1)
LoadFailsReturns ==
  /\ pc = "start"
  /\ argc = 2
  /\ readable
  /\ LET st == LoadStages(input.content)
     IN  /\ st.cause # "ok"
         /\ result' = "None"
         /\ cause' = st.cause
         /\ reported' = st.reported
         /\ fixed_file' = IF st.wrote_fixed
                          THEN fix_header_line(input.content) ELSE <<>>
         /\ files_read' = IF st.wrote_fixed THEN {CSV, FIXED} ELSE {CSV}
         /\ files_written' = IF st.wrote_fixed THEN <<FIXED>> ELSE <<>>
  /\ pc' = "exited"
  /\ exit_code' = 0
  /\ UNCHANGED <<argc, readable, input, df, chart, browser>>

\* read_and_process_csv returns None (non-HUF rows, or an exception caught
\* by its except clause); main exits with 1
LoadFails ==
  /\ pc = "start"
  /\ argc = 2
  /\ readable
  /\ LET st == LoadStages(input.content)
     IN  /\ st.cause # "ok"
         /\ result' = "None"
         /\ cause' = st.cause
         /\ reported' = st.reported
         /\ fixed_file' = IF st.wrote_fixed
                          THEN fix_header_line(input.content) ELSE <<>>
         /\ files_read' = IF st.wrote_fixed THEN {CSV, FIXED} ELSE {CSV}
         /\ files_written' = IF st.wrote_fixed THEN <<FIXED>> ELSE <<>>
  /\ pc' = "exited"
  /\ exit_code' = 1
  /\ UNCHANGED <<argc, readable, input, df, chart, browser>>

\* read_and_process_csv returns the frame
LoadOk ==
  /\ pc = "start"
  /\ argc = 2
  /\ readable
  /\ LET st == LoadStages(input.content)
     IN  /\ st.cause = "ok"
         /\ \E sorted \in SortOutcomes(st.rows) :
              df' = Processed(st.columns, sorted)
  /\ fixed_file' = fix_header_line(input.content)
  /\ result' = "data"
  /\ cause' = "ok"
  /\ files_read' = {CSV, FIXED}
  /\ files_written' = <<FIXED>>
  /\ pc' = "summary"
  /\ UNCHANGED <<argc, readable, input, reported, exit_code, chart, browser>>

\* the four summary prints: df['date'].min().strftime(...) and
\* df['balance'].iloc[-1] raise on a frame without rows, and the uncaught
\* exception ends the process with status 1
Summary ==
  /\ pc = "summary"
  /\ IF df = <<>>
     THEN pc' = "exited" /\ exit_code' = 1
     ELSE pc' = "chart" /\ UNCHANGED exit_code
  /\ UNCHANGED <<argc, readable, input, fixed_file, result, cause, reported,
                 df, chart, browser, files_read, files_written>>

\* create_plotly_chart and fig.write_html
WriteChart ==
  /\ pc = "chart"
  /\ chart' = create_plotly_chart(df)
  /\ files_written' = Append(files_written, HTML)
  /\ pc' = "browser"
  /\ UNCHANGED <<argc, readable, input, fixed_file, result, cause, reported,
                 df, exit_code, browser, files_read>>

\* webbrowser.open: it may raise, which is caught and reported; main then
\* returns and the process ends with status 0
OpenBrowser ==
  /\ pc = "browser"
  /\ browser' \in {"opened", "failed"}
  /\ pc' = "exited"
  /\ exit_code' = 0
  /\ UNCHANGED <<argc, readable, input, fixed_file, result, cause, reported,
                 df, chart, files_read, files_written>>

Next ==
  \/ Usage
  \/ LoadUnreadable
  \/ LoadFails
  \/ LoadOk
  \/ Summary
  \/ WriteChart
  \/ OpenBrowser

Spec == Init /\ [][Next]_vars

(***************************************************************************)
(* Vocabulary of the properties                                            *)
(***************************************************************************)
\* the non-empty data rows of the export, in file order
Records == SelectSeq(input.rows, LAMBDA r : r # BlankRow)
NonHufRecords == SelectSeq(Records, LAMBDA r : r.currency # HUF)
IncludedRecords == SelectSeq(Records, LAMBDA r : r.type # MERGE_TYPE)
\* a field as it is printed: an empty one as NaN
Shown(f) == IF f = "" THEN NaN ELSE f

Loaded == argc = 2 /\ readable /\ pc # "start"
ChartWritten == \E i \in 1..Len(files_written) : files_written[i] = HTML

RECURSIVE IsSubSeq(_, _)
\* a is b with some elements left out
IsSubSeq(a, b) ==
  IF a = <<>> THEN TRUE
  ELSE IF b = <<>> THEN FALSE
  ELSE IF Head(a) = Head(b) THEN IsSubSeq(Tail(a), Tail(b))
  ELSE IsSubSeq(a, Tail(b))

C2_TimestampsIncrease ==
  result = "data" =>
    \A i \in 1..(Len(df) - 1) : df[i].date < df[i + 1].date

\* C3: when a non-empty row of the export has a currency other than HUF,
\* the load returns None and the rows reported are exactly the non-HUF rows
\* (date, amount, currency), in file order.
C3_CurrencyGate ==
  (Loaded /\ NonHufRecords # <<>>) =>
    /\ result = "None"
    /\ reported = [i \in 1..Len(NonHufRecords) |->
                     [date |-> Shown(NonHufRecords[i].date),
                      amount |-> Shown(NonHufRecords[i].amount),
                      currency |-> Shown(NonHufRecords[i].currency)]]

\* C4: no row of the account-merge type is in the returned frame, and every
\* non-empty row of the export of any other type is.
C4_MergeExcluded ==
  result = "data" =>
    /\ \A i \in 1..Len(df) : df[i].type # MERGE_TYPE
    /\ Len(df) = Len(IncludedRecords)

\* C5: the fixed copy has as many lines as the export, every line after the
\* first is the export's line, and the first line is the export's first
\* line with nothing but non-tab whitespace taken out.
C5_OnlyHeaderAltered ==
  (\E i \in 1..Len(files_written) : files_written[i] = FIXED) =>
    LET before == readlines(input.content, <<>>)
        after == readlines(fixed_file, <<>>)
        kept(line) == SelectSeq(line, LAMBDA c : c = TAB \/ ~isspace(c))
    IN  /\ Len(after) = Len(before)
        /\ \A i \in 2..Len(before) : after[i] = before[i]
        /\ IsSubSeq(after[1], before[1])
        /\ kept(after[1]) = kept(before[1])

\* C6: once the run has taken a failure path (usage error, or the load
\* returned None for any cause) it has ended with status 1 and has not
\* written the chart; on a usage error it has read and written no file.
C6_FailureExits ==
  /\ (pc # "start" /\ (argc # 2 \/ result = "None")) =>
       pc = "exited" /\ exit_code = 1 /\ ~ChartWritten /\ chart = NoChart
  /\ (pc # "start" /\ argc # 2) =>
       files_read = {} /\ files_written = <<>> /\ result = "pending"

\* the currency check has failed the load and the run has ended
C6_Witness ==
  /\ pc = "exited"
  /\ cause = "currency"
  /\ reported # <<>>
  /\ files_written = <<FIXED>>

\* C7: a run started with one argument whose load returned a frame, empty
\* or not, writes the chart before the browser is tried and ends with
\* status 0 whatever the browser does.
C7_SuccessWritesChart ==
  /\ (browser # "" => ChartWritten)
  /\ (argc = 2 /\ result = "data" /\ pc = "exited") =>
       exit_code = 0 /\ ChartWritten

\* C8: the returned frame is ordered by posting date, rows of one posting
\* date are in file order, and the k-th row of a date (k = 0, 1, ...) is k
\* hours after that date's midnight.
C8_StableOrder ==
  result = "data" =>
    /\ \A i \in 1..Len(df) : \A j \in (i + 1)..Len(df) :
         /\ DateOrdinal[df[i].posting] <= DateOrdinal[df[j].posting]
         /\ df[i].posting = df[j].posting => df[i].idx < df[j].idx
    /\ \A i \in 1..Len(df) :
         df[i].date = DateOrdinal[df[i].posting] * HoursPerDay
                      + Cardinality({j \in 1..(i - 1) : df[j].posting = df[i].posting})

\* C9: the description of every returned row is the partner name when that
\* field is present, else the memo when that is present, else
\* 'No Description'; it is never empty or missing.
C9_Description ==
  result = "data" =>
    \A i \in 1..Len(df) :
      /\ df[i].partner # NaN => df[i].description = df[i].partner
      /\ (df[i].partner = NaN /\ df[i].memo # NaN) => df[i].description = df[i].memo
      /\ (df[i].partner = NaN /\ df[i].memo = NaN) =>
           df[i].description = NO_DESCRIPTION
      /\ df[i].description \notin {"", NaN}

\* the frame has a row described by its partner although it has a memo,
\* and a row without partner described by its memo
C9_Witness ==
  /\ result = "data"
  /\ \E i \in 1..Len(df) :
       df[i].partner # NaN /\ df[i].memo # NaN /\ df[i].description = df[i].partner
  /\ \E i \in 1..Len(df) :
       df[i].partner = NaN /\ df[i].memo # NaN /\ df[i].description = df[i].memo

\* C10: a non-empty row of the account-merge type whose currency is not
\* HUF (or is missing) makes the load return None.
C10_CheckBeforeExclusion ==
  (Loaded /\ \E i \in 1..Len(Records) :
               Records[i].type = MERGE_TYPE /\ Records[i].currency # HUF) =>
    result = "None"

====
